---- MODULE Spec2Model ----
(***************************************************************************)
(* Model of the video merge service (index.js): the POST /merge pipeline   *)
(* of upload (multer disk storage), validation, concat list, ffmpeg run,   *)
(* download and cleanup, for concurrently served requests that share one   *)
(* upload directory and one millisecond clock.                             *)
(*                                                                         *)
(* Strings are sequences of one-character strings, so that sanitising,     *)
(* separator replacement, number formatting and joining are computed.      *)
(***************************************************************************)
EXTENDS Integers, Sequences, FiniteSets, TLC

\* ------------------------------------------------------------------ bounds

\* The requests served concurrently.
Jobs == {1, 2}

\* Date.now() runs from StartClock to MaxClock.
StartClock == 9
MaxClock == 10

\* Longest request (number of file parts) of specification Spec.
MaxReqLen == 2

\* Longest request of specification SpecSingle; above the limit of 5 files.
BigReqLen == 6

\* upload = multer({ storage }).array("videos", 5)
MaxCount == 5

\* ------------------------------------------------------------------ strings

Lower == {"a","b","c","d","e","f","g","h","i","j","k","l","m",
          "n","o","p","q","r","s","t","u","v","w","x","y","z"}
Upper == {"A","B","C","D","E","F","G","H","I","J","K","L","M",
          "N","O","P","Q","R","S","T","U","V","W","X","Y","Z"}
Digit == {"0","1","2","3","4","5","6","7","8","9"}

\* The characters kept by /[^a-zA-Z0-9.\-]/g
SafeChars == Lower \cup Upper \cup Digit \cup {".", "-"}

DigitChars == <<"0","1","2","3","4","5","6","7","8","9">>

\* `${ts}`: the decimal digits of a number
RECURSIVE NumToStr(_)
NumToStr(n) ==
    IF n < 10 THEN <<DigitChars[n + 1]>>
    ELSE NumToStr(n \div 10) \o <<DigitChars[(n % 10) + 1]>>

\* file.originalname.replace(/[^a-zA-Z0-9.\-]/g, "_")
safeName(originalname) ==
    [i \in 1..Len(originalname) |->
        IF originalname[i] \in SafeChars THEN originalname[i] ELSE "_"]

\* cb(null, `${ts}_${safeName}`)
filename(ts, originalname) ==
    NumToStr(ts) \o <<"_">> \o safeName(originalname)

\* path.join(dir, name) with the platform's separator
pathJoin(dir, name) == dir.chars \o <<dir.sep>> \o name

\* file.path.replace(/\\/g, "/")
ForwardSlashes(p) ==
    [i \in 1..Len(p) |-> IF p[i] = "\\" THEN "/" ELSE p[i]]

\* Variant of JoinLines: the separator left out of join(), which then
\* joins with ",". The line count of C6 must tell it apart.
RECURSIVE JoinComma(_)
JoinComma(lines) ==
    IF Len(lines) = 0 THEN <<>>
    ELSE IF Len(lines) = 1 THEN lines[1]
    ELSE lines[1] \o <<",">> \o JoinComma(Tail(lines))

\* lines.join("\n")
RECURSIVE JoinLines(_)
JoinLines(lines) ==
    IF Len(lines) = 0 THEN <<>>
    ELSE IF Len(lines) = 1 THEN lines[1]
    ELSE lines[1] \o <<"\n">> \o JoinLines(Tail(lines))

\* `file '${...}'`
ListLine(p) == <<"f","i","l","e"," ","'">> \o ForwardSlashes(p) \o <<"'">>

\* files.map(file => `file '${file.path.replace(/\\/g, "/")}'`).join("\n")
listContent(fs) == JoinLines([i \in 1..Len(fs) |-> ListLine(fs[i])])

\* path.join(uploadDir, `concat_${Date.now()}.txt`)
ConcatName(ts) ==
    <<"c","o","n","c","a","t","_">> \o NumToStr(ts) \o <<".","t","x","t">>

\* path.join(uploadDir, `merged_${Date.now()}.mp4`)
MergedName(ts) ==
    <<"m","e","r","g","e","d","_">> \o NumToStr(ts) \o <<".","m","p","4">>

\* ------------------------------------------------------------------ inputs

\* path.join(__dirname, "uploads") for three installations: a plain POSIX
\* directory, a POSIX directory under a name with a quote, a Windows one.
UploadDirs ==
    { [chars |-> <<"/","u">>, sep |-> "/"],
      [chars |-> <<"/","o","'","s","/","u">>, sep |-> "/"],
      [chars |-> <<"C",":","\\","u">>, sep |-> "\\"] }

\* file.originalname of the uploaded parts
OrigNames == { <<"a","'">>, <<"b">> }

RECURSIVE SeqsUpTo(_, _)
SeqsUpTo(S, n) ==
    IF n = 0 THEN {<<>>}
    ELSE LET shorter == SeqsUpTo(S, n - 1)
         IN  shorter \cup {Append(s, x) : s \in {t \in shorter : Len(t) = n - 1}, x \in S}

\* err.message of a failed upload, ffErr.message, e.message
UploadMessages == {"ENOSPC"}
LimitMessage == "Unexpected field"
ToolMessages == {"ffmpeg exited with code 1"}
WriteMessages == {"EACCES"}

NoPath == <<>>
NoResponse == [kind |-> "none", status |-> 0, error |-> "", fields |-> {}, details |-> ""]

\* Variant of JsonError: the status argument dropped, every error a 500.
\* C15 must tell it apart.
JsonErrorAlways500(status, error) ==
    [kind |-> "json", status |-> 500, error |-> error,
     fields |-> {"error"}, details |-> ""]

JsonError(status, error) ==
    [kind |-> "json", status |-> status, error |-> error,
     fields |-> {"error"}, details |-> ""]

JsonErrorDetails(status, error, details) ==
    [kind |-> "json", status |-> status, error |-> error,
     fields |-> {"error", "details"}, details |-> details]

Download(complete) ==
    [kind |-> IF complete THEN "download" ELSE "aborted", status |-> 200,
     error |-> "", fields |-> {}, details |-> "merged.mp4"]

\* ------------------------------------------------------------------ state

VARIABLES
    uploadDir,       \* the upload directory of this installation
    clock,           \* Date.now()
    disk,            \* the files of the upload directory: path -> content
    req,             \* per request: the file parts not yet received
    files,           \* per request: req.files, the stored paths in order
    concatListPath,  \* per request: concatListPath, NoPath before line 62
    outputPath,      \* per request: outputPath, NoPath before line 72
    pc,              \* per request: where its handler is suspended
    resp,            \* per request: the response sent
    respCount,       \* per request: how many responses were sent
    toolRuns,        \* per request: how many times ffmpeg was started
    cleanupCalls,    \* per request: how many times cleanup() was called
    removeFailed,    \* per request: a removal of its cleanup() threw
    sendFailed       \* per request: res.download reported sendErr

vars == <<uploadDir, clock, disk, req, files, concatListPath, outputPath, pc,
          resp, respCount, toolRuns, cleanupCalls, removeFailed, sendFailed>>

\* ------------------------------------------------------------------ disk

Exists(p) == p \in DOMAIN disk

WriteFile(d, p, content) ==
    [q \in DOMAIN d \cup {p} |-> IF q = p THEN content ELSE d[q]]

RemoveAll(d, ps) == [q \in DOMAIN d \ ps |-> d[q]]

Video(j) == [kind |-> "video", job |-> j, text |-> <<>>]
ListFile(j, text) == [kind |-> "list", job |-> j, text |-> text]
Merged(j, complete) ==
    [kind |-> IF complete THEN "merged" ELSE "partial", job |-> j, text |-> <<>>]

Range(s) == {s[i] : i \in 1..Len(s)}

\* ------------------------------------------------------------------ cleanup

\* The removals cleanup(uploadedFiles, listFile, mergedFile) attempts, in order.
CleanupTargets(uploadedFiles, listFile, mergedFile) ==
    uploadedFiles
        \o (IF listFile # NoPath THEN <<listFile>> ELSE <<>>)
        \o (IF mergedFile # NoPath THEN <<mergedFile>> ELSE <<>>)

\* The disk after cleanup() in which removal number failAt throws (0: none
\* throws): the removals before it are done, the catch ends the rest.
cleanup(d, uploadedFiles, listFile, mergedFile, failAt) ==
    LET targets == CleanupTargets(uploadedFiles, listFile, mergedFile)
        done == IF failAt = 0 THEN Len(targets) ELSE failAt - 1
    IN  RemoveAll(d, {targets[i] : i \in 1..done})

\* Variant of RemoveFailures: removal by fs.unlink, which also throws
\* (ENOENT) on a path that does not exist. C16 must tell it apart.
UnlinkFailures(d, uploadedFiles, listFile, mergedFile) ==
    0..Len(CleanupTargets(uploadedFiles, listFile, mergedFile))

\* The removals of cleanup() that can throw, 0 standing for none: fs.remove
\* ignores a path that does not exist, so only the removal of a path that is
\* there when its turn comes can fail.
RemoveFailures(d, uploadedFiles, listFile, mergedFile) ==
    LET targets == CleanupTargets(uploadedFiles, listFile, mergedFile)
    IN  {0} \cup {k \in 1..Len(targets) :
                    /\ targets[k] \in DOMAIN d
                    /\ \A i \in 1..(k - 1) : targets[i] # targets[k]}

\* ------------------------------------------------------------------ start

InitJobs ==
    /\ uploadDir \in UploadDirs
    /\ clock = StartClock
    /\ disk = <<>>
    /\ files = [j \in Jobs |-> <<>>]
    /\ concatListPath = [j \in Jobs |-> NoPath]
    /\ outputPath = [j \in Jobs |-> NoPath]
    /\ pc = [j \in Jobs |-> "upload"]
    /\ resp = [j \in Jobs |-> NoResponse]
    /\ respCount = [j \in Jobs |-> 0]
    /\ toolRuns = [j \in Jobs |-> 0]
    /\ cleanupCalls = [j \in Jobs |-> 0]
    /\ removeFailed = [j \in Jobs |-> FALSE]
    /\ sendFailed = [j \in Jobs |-> FALSE]

\* The clips a client submits, in order: the two names in turn.
Clip(i) == IF i % 2 = 1 THEN <<"a","'">> ELSE <<"b">>

\* The request made of the first n clips.
Request(n) == [i \in 1..n |-> Clip(i)]

\* Two concurrent requests that submit the same clips, up to MaxReqLen each.
Init ==
    /\ InitJobs
    /\ req \in [Jobs -> {Request(n) : n \in 0..MaxReqLen}]

\* One request of up to BigReqLen file parts, next to a request without files.
InitSingle ==
    /\ InitJobs
    /\ \E r \in SeqsUpTo(OrigNames, BigReqLen) :
           req = [j \in Jobs |-> IF j = 1 THEN r ELSE <<>>]

\* ------------------------------------------------------------------ steps

Respond(j, r) ==
    /\ resp' = [resp EXCEPT ![j] = r]
    /\ respCount' = [respCount EXCEPT ![j] = @ + 1]

\* Date.now() advances.
Tick ==
    /\ clock < MaxClock
    /\ clock' = clock + 1
    /\ UNCHANGED <<uploadDir, disk, req, files, concatListPath, outputPath, pc,
                   resp, respCount, toolRuns, cleanupCalls, removeFailed, sendFailed>>

\* multer stores the next file part under destination/filename.
StageFile(j) ==
    /\ pc[j] = "upload"
    /\ req[j] # <<>>
    /\ Len(files[j]) < MaxCount
    /\ LET p == pathJoin(uploadDir, filename(clock, Head(req[j])))
       IN  /\ disk' = WriteFile(disk, p, Video(j))
           /\ files' = [files EXCEPT ![j] = Append(@, p)]
    /\ req' = [req EXCEPT ![j] = Tail(@)]
    /\ UNCHANGED <<uploadDir, clock, concatListPath, outputPath, pc, resp, respCount,
                   toolRuns, cleanupCalls, removeFailed, sendFailed>>

\* The upload fails on a part (a sixth file, or the storage write): multer
\* removes what it stored and the callback answers 500 "Upload failed".
UploadFail(j) ==
    /\ pc[j] = "upload"
    /\ req[j] # <<>>
    /\ \E msg \in (IF Len(files[j]) >= MaxCount THEN {LimitMessage} ELSE UploadMessages) :
           Respond(j, JsonErrorDetails(500, "Upload failed", msg))
    /\ disk' = RemoveAll(disk, Range(files[j]))
    /\ pc' = [pc EXCEPT ![j] = "done"]
    /\ UNCHANGED <<uploadDir, clock, req, files, concatListPath, outputPath,
                   toolRuns, cleanupCalls, removeFailed, sendFailed>>

\* Variant of UploadDone: the count is compared with 1, so that one file is
\* enough to go on. C17 must tell it apart.
UploadDoneOneEnough(j) ==
    /\ pc[j] = "upload"
    /\ req[j] = <<>>
    /\ IF Len(files[j]) < 1
       THEN /\ Respond(j, JsonError(400, "Please upload at least 2 videos to merge"))
            /\ pc' = [pc EXCEPT ![j] = "done"]
            /\ UNCHANGED concatListPath
       ELSE /\ concatListPath' =
                   [concatListPath EXCEPT ![j] = pathJoin(uploadDir, ConcatName(clock))]
            /\ pc' = [pc EXCEPT ![j] = "writing"]
            /\ UNCHANGED <<resp, respCount>>
    /\ UNCHANGED <<uploadDir, clock, disk, req, files, outputPath,
                   toolRuns, cleanupCalls, removeFailed, sendFailed>>

\* The upload callback without error: fewer than 2 files are answered 400;
\* otherwise the concat list path is named and fs.writeFile is awaited.
UploadDone(j) ==
    /\ pc[j] = "upload"
    /\ req[j] = <<>>
    /\ IF Len(files[j]) < 2
       THEN /\ Respond(j, JsonError(400, "Please upload at least 2 videos to merge"))
            /\ pc' = [pc EXCEPT ![j] = "done"]
            /\ UNCHANGED concatListPath
       ELSE /\ concatListPath' =
                   [concatListPath EXCEPT ![j] = pathJoin(uploadDir, ConcatName(clock))]
            /\ pc' = [pc EXCEPT ![j] = "writing"]
            /\ UNCHANGED <<resp, respCount>>
    /\ UNCHANGED <<uploadDir, clock, disk, req, files, outputPath,
                   toolRuns, cleanupCalls, removeFailed, sendFailed>>

\* Variant of WriteOk: fs.writeFile is not awaited, ffmpeg is started while
\* the list is not on disk yet. C18 must tell it apart.
WriteOkNotAwaited(j) ==
    /\ pc[j] = "writing"
    /\ outputPath' = [outputPath EXCEPT ![j] = pathJoin(uploadDir, MergedName(clock))]
    /\ toolRuns' = [toolRuns EXCEPT ![j] = @ + 1]
    /\ pc' = [pc EXCEPT ![j] = "tool_started"]
    /\ UNCHANGED <<uploadDir, clock, disk, req, files, concatListPath, resp, respCount,
                   cleanupCalls, removeFailed, sendFailed>>

\* fs.writeFile succeeded: the output path is named and ffmpeg is started.
WriteOk(j) ==
    /\ pc[j] = "writing"
    /\ disk' = WriteFile(disk, concatListPath[j], ListFile(j, listContent(files[j])))
    /\ outputPath' = [outputPath EXCEPT ![j] = pathJoin(uploadDir, MergedName(clock))]
    /\ toolRuns' = [toolRuns EXCEPT ![j] = @ + 1]
    /\ pc' = [pc EXCEPT ![j] = "tool_started"]
    /\ UNCHANGED <<uploadDir, clock, req, files, concatListPath, resp, respCount,
                   cleanupCalls, removeFailed, sendFailed>>

\* fs.writeFile threw: the catch block removes the concat list, answers 500.
WriteFail(j) ==
    /\ pc[j] = "writing"
    /\ disk' = RemoveAll(disk, {concatListPath[j]})
    /\ \E msg \in WriteMessages :
           Respond(j, JsonErrorDetails(500, "Server error", msg))
    /\ pc' = [pc EXCEPT ![j] = "done"]
    /\ UNCHANGED <<uploadDir, clock, req, files, concatListPath, outputPath,
                   toolRuns, cleanupCalls, removeFailed, sendFailed>>

\* ffmpeg has written a part of the output file.
ToolWriteOutput(j) ==
    /\ pc[j] = "tool_started"
    /\ disk' = WriteFile(disk, outputPath[j], Merged(j, FALSE))
    /\ pc' = [pc EXCEPT ![j] = "tool_writing"]
    /\ UNCHANGED <<uploadDir, clock, req, files, concatListPath, outputPath, resp,
                   respCount, toolRuns, cleanupCalls, removeFailed, sendFailed>>

\* Variant of ToolError: cleanup without its try/catch, so that a removal
\* that throws ends the handler before it answers. C13 must tell it apart.
ToolErrorUncaught(j) ==
    /\ pc[j] \in {"tool_started", "tool_writing"}
    /\ \E failAt \in RemoveFailures(disk, files[j], concatListPath[j], NoPath) :
           /\ disk' = cleanup(disk, files[j], concatListPath[j], NoPath, failAt)
           /\ removeFailed' = [removeFailed EXCEPT ![j] = (failAt # 0)]
           /\ IF failAt = 0
              THEN \E msg \in ToolMessages :
                       Respond(j, JsonErrorDetails(500, "Video merge failed", msg))
              ELSE UNCHANGED <<resp, respCount>>
    /\ cleanupCalls' = [cleanupCalls EXCEPT ![j] = @ + 1]
    /\ pc' = [pc EXCEPT ![j] = "done"]
    /\ UNCHANGED <<uploadDir, clock, req, files, concatListPath, outputPath,
                   toolRuns, sendFailed>>

\* ffmpeg emits "error": cleanup(files, concatListPath, null), then 500.
ToolError(j) ==
    /\ pc[j] \in {"tool_started", "tool_writing"}
    /\ \E failAt \in RemoveFailures(disk, files[j], concatListPath[j], NoPath) :
           /\ disk' = cleanup(disk, files[j], concatListPath[j], NoPath, failAt)
           /\ removeFailed' = [removeFailed EXCEPT ![j] = (failAt # 0)]
    /\ cleanupCalls' = [cleanupCalls EXCEPT ![j] = @ + 1]
    /\ \E msg \in ToolMessages :
           Respond(j, JsonErrorDetails(500, "Video merge failed", msg))
    /\ pc' = [pc EXCEPT ![j] = "done"]
    /\ UNCHANGED <<uploadDir, clock, req, files, concatListPath, outputPath,
                   toolRuns, sendFailed>>

\* Variant of ToolEnd: the "end" handler also runs cleanup itself, before the
\* download whose callback runs it again. C8 must tell it apart.
ToolEndCleansToo(j) ==
    /\ pc[j] \in {"tool_started", "tool_writing"}
    /\ disk' = cleanup(WriteFile(disk, outputPath[j], Merged(j, TRUE)),
                       files[j], concatListPath[j], NoPath, 0)
    /\ cleanupCalls' = [cleanupCalls EXCEPT ![j] = @ + 1]
    /\ pc' = [pc EXCEPT ![j] = "sending"]
    /\ UNCHANGED <<uploadDir, clock, req, files, concatListPath, outputPath, resp,
                   respCount, toolRuns, removeFailed, sendFailed>>

\* ffmpeg finishes the output file and emits "end": res.download is started.
ToolEnd(j) ==
    /\ pc[j] \in {"tool_started", "tool_writing"}
    /\ disk' = WriteFile(disk, outputPath[j], Merged(j, TRUE))
    /\ pc' = [pc EXCEPT ![j] = "sending"]
    /\ UNCHANGED <<uploadDir, clock, req, files, concatListPath, outputPath, resp,
                   respCount, toolRuns, cleanupCalls, removeFailed, sendFailed>>

\* The download callback: cleanup(files, concatListPath, outputPath).
DownloadCleanup(j) ==
    /\ \E failAt \in RemoveFailures(disk, files[j], concatListPath[j], outputPath[j]) :
           /\ disk' = cleanup(disk, files[j], concatListPath[j], outputPath[j], failAt)
           /\ removeFailed' = [removeFailed EXCEPT ![j] = (failAt # 0)]
    /\ cleanupCalls' = [cleanupCalls EXCEPT ![j] = @ + 1]

\* The merged file was sent whole; the callback runs without sendErr.
DownloadOk(j) ==
    /\ pc[j] = "sending"
    /\ Exists(outputPath[j])
    /\ Respond(j, Download(TRUE))
    /\ DownloadCleanup(j)
    /\ pc' = [pc EXCEPT ![j] = "done"]
    /\ UNCHANGED <<uploadDir, clock, req, files, concatListPath, outputPath,
                   toolRuns, sendFailed>>

\* Variant of DownloadErr: the callback returns on sendErr before it reaches
\* cleanup. C10 must tell it apart.
DownloadErrReturnsEarly(j) ==
    /\ pc[j] = "sending"
    /\ \E started \in BOOLEAN :
           /\ started => Exists(outputPath[j])
           /\ IF started THEN Respond(j, Download(FALSE))
                         ELSE UNCHANGED <<resp, respCount>>
    /\ sendFailed' = [sendFailed EXCEPT ![j] = TRUE]
    /\ pc' = [pc EXCEPT ![j] = "done"]
    /\ UNCHANGED <<uploadDir, clock, disk, req, files, concatListPath, outputPath,
                   toolRuns, cleanupCalls, removeFailed>>

\* Sending failed, before any byte (the file cannot be read) or part-way
\* (the caller disconnected): the callback runs with sendErr.
DownloadErr(j) ==
    /\ pc[j] = "sending"
    /\ \E started \in BOOLEAN :
           /\ started => Exists(outputPath[j])
           /\ IF started THEN Respond(j, Download(FALSE))
                         ELSE UNCHANGED <<resp, respCount>>
    /\ sendFailed' = [sendFailed EXCEPT ![j] = TRUE]
    /\ DownloadCleanup(j)
    /\ pc' = [pc EXCEPT ![j] = "done"]
    /\ UNCHANGED <<uploadDir, clock, req, files, concatListPath, outputPath, toolRuns>>

Next ==
    \/ Tick
    \/ \E j \in Jobs : StageFile(j)
    \/ \E j \in Jobs : UploadFail(j)
    \/ \E j \in Jobs : UploadDone(j)
    \/ \E j \in Jobs : WriteOk(j)
    \/ \E j \in Jobs : WriteFail(j)
    \/ \E j \in Jobs : ToolWriteOutput(j)
    \/ \E j \in Jobs : ToolError(j)
    \/ \E j \in Jobs : ToolEnd(j)
    \/ \E j \in Jobs : DownloadOk(j)
    \/ \E j \in Jobs : DownloadErr(j)

Spec == Init /\ [][Next]_vars

SpecSingle == InitSingle /\ [][Next]_vars

\* ------------------------------------------------------------------ claims

StagedPaths(j) == Range(files[j])

\* Every path request j has named: staged inputs, concat list, output.
JobPaths(j) == StagedPaths(j) \cup ({concatListPath[j], outputPath[j]} \ {NoPath})

\* The files on disk whose content request j wrote.
FilesOf(j) == {p \in DOMAIN disk : disk[p].job = j}

Concluded(j) == pc[j] = "done"

\* C1: once a request has concluded, whatever its outcome, the upload
\* directory holds none of the files that request created.
C1_NoLeftovers ==
    \A j \in Jobs : Concluded(j) => FilesOf(j) = {}

\* C2: a request whose upload staged fewer than 2 files is answered with the
\* validation error, never starts ffmpeg, and leaves no staged file behind.
C2_TooFewRejectedAndSwept ==
    \A j \in Jobs :
        (Concluded(j) /\ req[j] = <<>> /\ Len(files[j]) < 2) =>
            /\ resp[j].kind = "json" /\ resp[j].status = 400
            /\ toolRuns[j] = 0
            /\ FilesOf(j) = {}

\* C3: when ffmpeg reports an error, the response is a 500 with the tool's
\* message in details, and after the handler the job's output file is gone.
C3_MergeFailureRemovesOutput ==
    \A j \in Jobs :
        (Concluded(j) /\ resp[j].error = "Video merge failed") =>
            /\ resp[j].status = 500
            /\ "details" \in resp[j].fields
            /\ resp[j].details \in ToolMessages
            /\ ~(Exists(outputPath[j]) /\ disk[outputPath[j]].job = j)

\* C4: any two distinct staged files have different stored paths, and any two
\* distinct requests active at the same time have different concat list paths
\* and different output paths.
C4_PathsUnique ==
    /\ \A j, k \in Jobs : \A a \in DOMAIN files[j] : \A b \in DOMAIN files[k] :
           (j # k \/ a # b) => files[j][a] # files[k][b]
    /\ \A j, k \in Jobs :
           (j # k /\ ~Concluded(j) /\ ~Concluded(k)) =>
               /\ (concatListPath[j] # NoPath => concatListPath[j] # concatListPath[k])
               /\ (outputPath[j] # NoPath => outputPath[j] # outputPath[k])

\* The paths a step creates, removes or rewrites.
Touched ==
    {p \in DOMAIN disk \cup DOMAIN disk' :
        \/ (p \in DOMAIN disk) # (p \in DOMAIN disk')
        \/ (p \in DOMAIN disk /\ p \in DOMAIN disk' /\ disk[p] # disk'[p])}

\* Request i takes its step of writing the concat list, of the tool writing
\* the output, or of removing files (cleanup, catch block).
WritesOrRemoves(i) ==
    /\ pc[i] \in {"writing", "tool_started", "tool_writing", "sending"}
    /\ pc'[i] # pc[i]

\* C5: no manifest write, tool output or cleanup of one request writes or
\* removes a path of another request that has not concluded.
C5_ExclusiveOwnership ==
    [][\A i, k \in Jobs :
          (i # k /\ WritesOrRemoves(i) /\ ~Concluded(k)) =>
              Touched \cap JobPaths(k) = {}]_vars

\* The index of the first "\n" of a text, 0 when it has none.
FirstNewline(t) ==
    IF \E i \in 1..Len(t) : t[i] = "\n"
    THEN CHOOSE i \in 1..Len(t) :
             t[i] = "\n" /\ \A k \in 1..(i - 1) : t[k] # "\n"
    ELSE 0

\* The lines of a text.
RECURSIVE SplitLines(_)
SplitLines(t) ==
    LET n == FirstNewline(t)
    IN  IF n = 0 THEN <<t>>
        ELSE <<SubSeq(t, 1, n - 1)>> \o SplitLines(SubSeq(t, n + 1, Len(t)))

\* Two spellings of one path: equal up to the separator written.
SamePath(a, b) ==
    /\ Len(a) = Len(b)
    /\ \A i \in 1..Len(a) : a[i] = b[i] \/ {a[i], b[i]} = {"\\", "/"}

\* line is the directive file '<path>' for path p.
IsDirectiveFor(line, p) ==
    /\ Len(line) = Len(p) + 7
    /\ SubSeq(line, 1, 6) = <<"f","i","l","e"," ","'">>
    /\ line[Len(line)] = "'"
    /\ SamePath(SubSeq(line, 7, Len(line) - 1), p)

\* Request j's concat list is on disk as j wrote it.
ManifestOnDisk(j) ==
    /\ concatListPath[j] # NoPath
    /\ Exists(concatListPath[j])
    /\ disk[concatListPath[j]].kind = "list"
    /\ disk[concatListPath[j]].job = j

\* C6: the concat list of a request with N staged files (2 <= N <= 5) has
\* exactly N lines, the i-th being file '<stored path of the i-th file>'.
C6_ManifestMirrorsFiles ==
    \A j \in Jobs :
        ManifestOnDisk(j) =>
            LET lines == SplitLines(disk[concatListPath[j]].text)
                N == Len(files[j])
            IN  /\ N \in 2..MaxCount
                /\ Len(lines) = N
                /\ \A i \in 1..N : IsDirectiveFor(lines[i], files[j][i])

\* A request of 5 files, stored under differing names, has its list on disk.
C6_Witness ==
    /\ ManifestOnDisk(1)
    /\ Len(files[1]) = MaxCount
    /\ files[1][1] # files[1][2]
    /\ files[1][1] # files[1][MaxCount]

HasQuote(p) == "'" \in Range(p)

\* The path that a line of a concat list gives between its outer quotes.
DirectivePath(line) == SubSeq(line, 7, Len(line) - 1)

\* C7: a request with a staged path that contains a single quote never has
\* ffmpeg started, and no concat list is written whose path holds a quote.
C7_QuoteRejected ==
    /\ \A j \in Jobs :
           (\E i \in DOMAIN files[j] : HasQuote(files[j][i])) => toolRuns[j] = 0
    /\ \A p \in DOMAIN disk :
           disk[p].kind = "list" =>
               LET lines == SplitLines(disk[p].text)
               IN  \A i \in DOMAIN lines : ~HasQuote(DirectivePath(lines[i]))

\* C8: cleanup is called at most once for a request.
C8_CleanupAtMostOnce ==
    \A j \in Jobs : cleanupCalls[j] <= 1

\* One request ended by the tool's error and one by its download, each with
\* its one call of cleanup.
C8_Witness ==
    \E j, k \in Jobs :
        /\ Concluded(j) /\ resp[j].error = "Video merge failed" /\ cleanupCalls[j] = 1
        /\ Concluded(k) /\ resp[k].kind = "download" /\ cleanupCalls[k] = 1

\* C9: while the response is being sent the request's cleanup has not
\* started and its output file exists.
C9_OutputOutlivesDownload ==
    \A j \in Jobs :
        pc[j] = "sending" => (cleanupCalls[j] = 0 /\ Exists(outputPath[j]))

ToolRunning(j) == pc[j] \in {"tool_started", "tool_writing"}

\* C11: no failure of staging, of the manifest or of the merge is answered
\* with its error before the staged inputs have been swept: cleanup has been
\* called, or none of the files the request staged is left.
C11_SweepBeforeErrorResponse ==
    \A j \in Jobs :
        (Concluded(j) /\ resp[j].kind = "json" /\ resp[j].status = 500) =>
            \/ cleanupCalls[j] >= 1
            \/ StagedPaths(j) \cap FilesOf(j) = {}

\* The paths handed to the cleanup call that request j makes from where it is.
CleanupArgs(j) ==
    Range(CleanupTargets(files[j], concatListPath[j],
                         IF pc[j] = "sending" THEN outputPath[j] ELSE NoPath))

\* C12: cleanup attempts every removal, also after one of them has failed:
\* at most the artifact whose removal failed is still there after it.
C12_RemovalsIndependent ==
    [][\A j \in Jobs :
          cleanupCalls'[j] = cleanupCalls[j] + 1 =>
              Cardinality(CleanupArgs(j) \cap DOMAIN disk') <= 1]_vars

\* C13: the handler that runs cleanup ends normally and sends the response
\* its outcome determines, whether or not a removal of the cleanup failed.
C13_ResponseIgnoresCleanupFailure ==
    [][\A j \in Jobs :
          cleanupCalls'[j] = cleanupCalls[j] + 1 =>
              /\ pc'[j] = "done"
              /\ ToolRunning(j) =>
                     /\ respCount'[j] = respCount[j] + 1
                     /\ \E m \in ToolMessages :
                            resp'[j] = JsonErrorDetails(500, "Video merge failed", m)
              /\ (pc[j] = "sending" /\ ~sendFailed'[j]) => resp'[j] = Download(TRUE)
              /\ (pc[j] = "sending" /\ sendFailed'[j]) =>
                     resp'[j] \in {Download(FALSE), resp[j]}]_vars

\* Two failed merges, one with a failed removal and one without, answered
\* alike.
C13_Witness ==
    \E j, k \in Jobs :
        /\ Concluded(j) /\ Concluded(k)
        /\ resp[j].error = "Video merge failed"
        /\ removeFailed[j] /\ ~removeFailed[k] /\ cleanupCalls[k] = 1
        /\ resp[j] = resp[k]

\* C14: every failure response is a JSON object with an error field and a
\* details field.
C14_ErrorAndDetails ==
    \A j \in Jobs :
        resp[j].kind = "json" => {"error", "details"} \subseteq resp[j].fields

\* C15: a validation failure is answered 400, an upload, manifest or merge
\* failure 500, and none of them with a download.
C15_StatusByFailureKind ==
    [][\A j \in Jobs :
          (pc[j] \in {"upload", "writing", "tool_started", "tool_writing"}
              /\ pc'[j] = "done") =>
              /\ resp'[j].kind = "json"
              /\ respCount'[j] = respCount[j] + 1
              /\ resp'[j].status =
                     (IF pc[j] = "upload" /\ req[j] = <<>> THEN 400 ELSE 500)]_vars

\* One request refused for too few files, the other failed in its merge.
C15_Witness ==
    \E j, k \in Jobs :
        /\ Concluded(j) /\ Len(files[j]) < 2 /\ req[j] = <<>> /\ resp[j].status = 400
        /\ Concluded(k) /\ toolRuns[k] = 1 /\ resp[k].status = 500

C17_ToolNeedsTwoFiles ==
    \A j \in Jobs :
        /\ toolRuns[j] > 0 => (req[j] = <<>> /\ Len(files[j]) >= 2)
        /\ ToolRunning(j) => (toolRuns[j] = 1 /\ Len(files[j]) >= 2)
        /\ resp[j].error = "Upload failed" => toolRuns[j] = 0

\* One request's tool runs on 2 files while a one-file request has ended
\* without a tool run.
C17_Witness ==
    \E j, k \in Jobs :
        /\ ToolRunning(j) /\ Len(files[j]) = 2
        /\ Concluded(k) /\ Len(files[k]) = 1 /\ toolRuns[k] = 0

\* C18: ffmpeg is started only once the whole concat list is on disk; when
\* writing the list fails, ffmpeg is never started and the answer is the 500
\* server error.
C18_ToolAfterManifest ==
    [][\A j \in Jobs :
          /\ toolRuns'[j] > toolRuns[j] =>
                 /\ pc[j] = "writing"
                 /\ concatListPath[j] \in DOMAIN disk'
                 /\ disk'[concatListPath[j]] = ListFile(j, listContent(files[j]))
          /\ (pc[j] = "writing" /\ pc'[j] = "done") =>
                 /\ toolRuns'[j] = 0
                 /\ resp'[j] \in {JsonErrorDetails(500, "Server error", m) :
                                     m \in WriteMessages}
          /\ Concluded(j) => toolRuns'[j] = toolRuns[j]]_vars

\* One request's tool has started with its list on disk; the other's list
\* could not be written and it has ended without a tool run.
C18_Witness ==
    \E j, k \in Jobs :
        /\ pc[j] = "tool_started" /\ ManifestOnDisk(j)
        /\ Concluded(k) /\ resp[k].error = "Server error" /\ toolRuns[k] = 0

\* C19: a request is never answered twice, and a request that has concluded
\* has been answered.
C19_ExactlyOneResponse ==
    \A j \in Jobs :
        /\ respCount[j] <= 1
        /\ Concluded(j) => respCount[j] = 1

\* C20: while a request's tool runs, its staged inputs and its concat list
\* are on disk.
C20_InputsPresentWhileToolRuns ==
    \A j \in Jobs :
        ToolRunning(j) =>
            (StagedPaths(j) \cup {concatListPath[j]}) \subseteq DOMAIN disk

====
